---- MODULE Spec2Model ----
(***************************************************************************)
(* State machine of the TextDisplay custom element (textbox.js): the       *)
(* typewriter reveal driven by window.setInterval, the paging on a         *)
(* whitespace character, and the Continue/Done button.                     *)
(*                                                                         *)
(* A string is a sequence of one-character strings.  The characters are    *)
(* the letters "a", "b", "c" and the space " ", the only whitespace.       *)
(***************************************************************************)
EXTENDS Integers, Sequences, FiniteSets, Bags, TLC

\* ------------------------------------------------------------- bounds --
\* Longest text drawn from the full alphabet {"a", " "}.
MaxLen == 2
\* Number of attributeChangedCallback invocations in one behaviour.
MaxSetText == 3
\* Length of the texts that are longer than one page.
LongLen == 103
\* The tick counter `ticks` stops counting here.
MaxTicks == 5

\* ---------------------------------------------------- program constants --
\* `index % 100 === 0` (textbox.js line 166)
PageSize == 100

\* --------------------------------------------------------------- texts --
Space == " "

Alphabet == {"a", Space}

ShortTexts == UNION {[1..n -> Alphabet] : n \in 0..MaxLen}

Abc == <<"a", "b", "c">>

\* The shortest text with a whitespace character inside.
TwoWords == <<"a", Space, "a">>

\* A text of n letters with a space at each position of `spaces`.
TextWithSpaces(n, spaces) == [i \in 1..n |-> IF i \in spaces THEN Space ELSE "a"]

\* Texts longer than a page: a space before the page boundary and one at the
\* boundary, right after it, or nowhere near it.
LongTexts ==
    { TextWithSpaces(LongLen, {PageSize \div 2} \cup s) :
        s \in {{}, {PageSize}, {PageSize + 1}} }

\* 150 characters, the only whitespace a space at position 120 counted from
\* 0: here the 121st of 1..150.
Scenario150 == TextWithSpaces(150, {121})

PagedTexts == LongTexts \cup {Scenario150}

Texts == ShortTexts \cup {Abc, TwoWords} \cup PagedTexts

\* ---------------------------------------------------------- pure parts --
\* `!letter.value.textContent.trim()` for a one-character node (line 168)
IsWhitespace(ch) == ch = Space

\* String.prototype.trim (line 193): drop leading and trailing whitespace.
Trim(s) ==
    LET keep == {i \in 1..Len(s) : ~IsWhitespace(s[i])}
    IN  IF keep = {} THEN <<>>
        ELSE LET lo == CHOOSE i \in keep : \A j \in keep : i <= j
                 hi == CHOOSE i \in keep : \A j \in keep : j <= i
             IN  SubSeq(s, lo, hi)

\* Segmenting that forgets the trim.
SegmentUntrimmed(newValue) == newValue

\* `.split('').map(char => <span class="char">char</span>).join('')` then
\* Array.from(this.textBox.children): one node per character (lines 192-197).
Segment(newValue) == Trim(newValue)

\* A guard that lets every value through.
FalsyNever(newValue) == FALSE

\* `if (!newValue) return;` (line 188): only the empty string is falsy.
Falsy(newValue) == newValue = <<>>

\* --------------------------------------------------------------- state --
VARIABLES
    textAttr,          \* value of the element's `text` attribute
    accessibleText,    \* this.accessibleTextBox.textContent
    continueText,      \* this.continueButton.textContent
    continueHidden,    \* this.continueButton.hidden
    textBoxHidden,     \* this.textBox.hidden
    dataComplete,      \* this.textBox.hasAttribute('data-complete')
    chars,             \* textContent of each child span of this.textBox
    textBoxGen,        \* which innerHTML assignment made the children
    classVisible,      \* children whose classList has 'visible'
    unitHidden,        \* children whose `hidden` property is set
    ellipsisAfter,     \* children whose classList has 'ellipsis-after'
    ellipsisBefore,    \* children whose classList has 'ellipsis-before'
    letters,           \* this.letters: the generator (array, length, index)
    timers,            \* bag of live intervals: the closure of each
    typeError,         \* a callback threw on a missing sibling
    orphanMarks,       \* 'visible' added to nodes no longer in the text box
    nSet,              \* attributeChangedCallback invocations so far
    lastText,          \* the last value attributeChangedCallback did not ignore
    ticks,             \* interval callbacks since the last text was taken
    setOnIdle,         \* the last text was taken on an idle display
    last               \* what the last handler that was not ignored did

dom == <<chars, textBoxGen, classVisible, unitHidden, ellipsisAfter, ellipsisBefore>>

display == <<accessibleText, continueText, continueHidden, textBoxHidden, dataComplete>>

history == <<nSet, lastText, ticks, setOnIdle, last>>

vars == <<textAttr, display, dom, letters, timers, typeError, orphanMarks, history>>

ContinueLabel == "Continue..."

DoneLabel == "Done"

NoTimers == EmptyBag

NumTimers == BagCardinality(timers)

\* Nothing is shown, nothing is pending.
Idle == timers = NoTimers /\ continueHidden /\ textBoxHidden /\ ~dataComplete

\* The markup of the constructor (lines 104-106); this.letters is not set yet.
Init ==
    /\ textAttr = <<>>
    /\ accessibleText = <<>>
    /\ continueText = ContinueLabel
    /\ continueHidden = TRUE
    /\ textBoxHidden = TRUE
    /\ dataComplete = FALSE
    /\ chars = <<>>
    /\ textBoxGen = 0
    /\ classVisible = {}
    /\ unitHidden = {}
    /\ ellipsisAfter = {}
    /\ ellipsisBefore = {}
    /\ letters = [arr |-> 0, len |-> 0, index |-> 0]
    /\ timers = NoTimers
    /\ typeError = FALSE
    /\ orphanMarks = 0
    /\ nSet = 0
    /\ lastText = <<>>
    /\ ticks = 0
    /\ setOnIdle = FALSE
    /\ last = "none"

\* ------------------------------------------------------------- helpers --
\* A generator that is made once and kept when the text changes.
letterGeneratorKept(arr, n) ==
    IF letters.arr = 0 THEN [arr |-> arr, len |-> n, index |-> 0] ELSE letters

\* letterGenerator(letters) (lines 138-145): a fresh generator over the array
\* `arr` of n nodes; `index` counts the nodes it has yielded.
letterGenerator(arr, n) == [arr |-> arr, len |-> n, index |-> 0]

\* `letter.done` of `this.letters.next()` (lines 141, 158-159).
IsDone(g) == g.index >= g.len

\* A running count that starts at 0.
NewIntervalFromZero == [index |-> 0, look |-> FALSE]

\* The closure showLetters creates: `let index = 1`,
\* `let lookForWhitespaceChar = false` (lines 154-156).
NewInterval == [index |-> 1, look |-> FALSE]

\* window.setInterval (line 157) and window.clearInterval (lines 163, 169).
SetInterval(t) == timers (+) SetToBag({t})

ClearInterval(t) == timers (-) SetToBag({t})

\* The array the next innerHTML assignment creates (lines 192-197).
NextGen == IF textBoxGen = 1 THEN 2 ELSE 1

\* The accessibility text cut down to what the text box shows.
AccessibleContentTrimmed(newValue) == Trim(newValue)

\* `this.accessibleTextBox.textContent = newValue` (line 189).
AccessibleContent(newValue) == newValue

\* Completion read off the button's label instead of the attribute.
IsCompleteByLabel == continueText = DoneLabel

\* `this.textBox.hasAttribute('data-complete')` (line 114).
IsComplete == dataComplete

Min(a, b) == IF a < b THEN a ELSE b

\* ------------------------------------------------------------- actions --
\* attributeChangedCallback(name, oldValue, newValue) (lines 187-199), run
\* by setAttribute('text', newValue).
attributeChangedCallback(newValue) ==
    /\ textAttr' = newValue
    /\ nSet' = nSet + 1
    /\ IF Falsy(newValue)
       THEN UNCHANGED <<display, dom, letters, timers, typeError, orphanMarks,
                        lastText, ticks, setOnIdle, last>>
       ELSE /\ accessibleText' = AccessibleContent(newValue)
            /\ continueText' = ContinueLabel
            /\ textBoxHidden' = FALSE
            /\ chars' = Segment(newValue)
            /\ textBoxGen' = NextGen
            /\ classVisible' = {}
            /\ unitHidden' = {}
            /\ ellipsisAfter' = {}
            /\ ellipsisBefore' = {}
            /\ letters' = letterGenerator(NextGen, Len(Segment(newValue)))
            /\ timers' = SetInterval(NewInterval)
            /\ lastText' = newValue
            /\ ticks' = 0
            /\ setOnIdle' = Idle
            /\ last' = "set"
            /\ UNCHANGED <<continueHidden, dataComplete, typeError, orphanMarks>>

\* Exhaustion that stops the timer and shows the button but forgets the
\* label and the data-complete attribute.
ExhaustedUnmarked(t) ==
    /\ continueHidden' = FALSE
    /\ timers' = ClearInterval(t)
    /\ last' = "done"
    /\ UNCHANGED <<continueText, dataComplete, classVisible, ellipsisAfter,
                   ellipsisBefore, letters, typeError, orphanMarks>>

\* The interval callback when the generator is exhausted (lines 159-164).
Exhausted(t) ==
    /\ continueText' = DoneLabel
    /\ continueHidden' = FALSE
    /\ dataComplete' = TRUE
    /\ timers' = ClearInterval(t)
    /\ last' = "done"
    /\ UNCHANGED <<classVisible, ellipsisAfter, ellipsisBefore, letters,
                   typeError, orphanMarks>>

\* The rest of the interval callback, on the node u the generator yields
\* (lines 165-175).  The class 'visible' is added before the whitespace test;
\* a missing sibling throws a TypeError that ends the callback where it is.
Reveal(t, u) ==
    LET look == t.look \/ (t.index % PageSize = 0)
        inBox == letters.arr = textBoxGen
    IN  /\ letters' = [letters EXCEPT !.index = u]
        /\ classVisible' = IF inBox THEN classVisible \cup {u} ELSE classVisible
        /\ orphanMarks' = IF inBox THEN orphanMarks ELSE orphanMarks + 1
        /\ UNCHANGED <<continueText, dataComplete>>
        /\ IF inBox /\ look /\ IsWhitespace(chars[u])
           THEN /\ timers' = ClearInterval(t)
                /\ last' = "pause"
                /\ ellipsisAfter' =
                      IF u > 1 THEN ellipsisAfter \cup {u - 1} ELSE ellipsisAfter
                /\ ellipsisBefore' =
                      IF u > 1 /\ u < letters.len
                      THEN ellipsisBefore \cup {u + 1} ELSE ellipsisBefore
                /\ typeError' = (typeError \/ u = 1 \/ u = letters.len)
                /\ continueHidden' =
                      IF u > 1 /\ u < letters.len THEN FALSE ELSE continueHidden
           ELSE /\ timers' = (timers (-) SetToBag({t}))
                                (+) SetToBag({[index |-> t.index + 1, look |-> look]})
                /\ last' = "tick"
                /\ UNCHANGED <<ellipsisAfter, ellipsisBefore, typeError,
                               continueHidden>>

\* One run of the setInterval callback of the interval whose closure is t
\* (lines 157-176); it reads `this.letters` when it runs.
IntervalCallback(t) ==
    /\ t \in BagToSet(timers)
    /\ ticks' = Min(ticks + 1, MaxTicks)
    /\ UNCHANGED <<textAttr, accessibleText, textBoxHidden, chars, textBoxGen,
                   unitHidden, nSet, lastText, setOnIdle>>
    /\ IF IsDone(letters) THEN Exhausted(t) ELSE Reveal(t, letters.index + 1)

\* A listener whose dismiss also empties the accessibility text.
PointerUpClearingMirror ==
    /\ ~continueHidden
    /\ continueHidden' = TRUE
    /\ UNCHANGED <<textAttr, continueText, chars, textBoxGen, classVisible,
                   ellipsisAfter, ellipsisBefore, letters, typeError,
                   orphanMarks, nSet, lastText, ticks, setOnIdle>>
    /\ IF IsComplete
       THEN /\ textBoxHidden' = TRUE
            /\ dataComplete' = FALSE
            /\ accessibleText' = <<>>
            /\ last' = "dismiss"
            /\ UNCHANGED <<unitHidden, timers>>
       ELSE /\ unitHidden' = unitHidden \cup classVisible
            /\ timers' = SetInterval(NewInterval)
            /\ last' = "continue"
            /\ UNCHANGED <<accessibleText, textBoxHidden, dataComplete>>

\* The pointerup listener of the continue button (lines 113-124).  A hidden
\* button receives no pointer events.
PointerUp ==
    /\ ~continueHidden
    /\ continueHidden' = TRUE
    /\ UNCHANGED <<textAttr, accessibleText, continueText, chars, textBoxGen,
                   classVisible, ellipsisAfter, ellipsisBefore, letters, typeError,
                   orphanMarks, nSet, lastText, ticks, setOnIdle>>
    /\ IF IsComplete
       THEN /\ textBoxHidden' = TRUE
            /\ dataComplete' = FALSE
            /\ last' = "dismiss"
            /\ UNCHANGED <<unitHidden, timers>>
       ELSE /\ unitHidden' = unitHidden \cup classVisible
            /\ timers' = SetInterval(NewInterval)
            /\ last' = "continue"
            /\ UNCHANGED <<textBoxHidden, dataComplete>>

\* ------------------------------------------------------- specification --
\* The page sets the attribute at most MaxSetText times; a text longer than
\* a page is set only on an idle display.
SetText ==
    \E newValue \in Texts :
        /\ nSet < MaxSetText
        /\ newValue \in PagedTexts => Idle
        /\ attributeChangedCallback(newValue)

Tick == \E t \in BagToSet(timers) : IntervalCallback(t)

Next == SetText \/ Tick \/ PointerUp

Spec == Init /\ [][Next]_vars

\* The page sets a text only while the display is at rest: no interval live,
\* and the button hidden or showing that the last text is complete.  The
\* interval keeps firing while it is live (setInterval), and the user presses
\* the button whenever it stays shown.
SetTextAtRest ==
    \E newValue \in Texts :
        /\ nSet < MaxSetText
        /\ timers = NoTimers
        /\ continueHidden \/ dataComplete
        /\ attributeChangedCallback(newValue)

NextAtRest == SetTextAtRest \/ Tick \/ PointerUp

FairSpec == Init /\ [][NextAtRest]_vars /\ WF_vars(Tick) /\ WF_vars(PointerUp)

\* -------------------------------------------------------------- claims --

\* C1 (as claimed): in every reachable state at most one reveal timer is
\* live for the display.
AtMostOneTimer == NumTimers <= 1

\* C2 (as claimed): whenever the continue/done button is visible, no reveal
\* timer is live.
NoTimerWhileButtonVisible == ~continueHidden => timers = NoTimers

\* C3: after a new text is taken, the generator the ticks advance is the one
\* over the children now in the text box (all of them), and no tick has ever
\* added 'visible' to a node of an earlier text.
NoOldUnitRevealed ==
    /\ letters.arr = textBoxGen
    /\ letters.len = Len(chars)
    /\ orphanMarks = 0

\* C3 witness: a text was taken while a reveal was running, and the timer of
\* the earlier reveal (its count is ahead of the cursor) has ticked on the
\* new text.
OldTimerTickedOnNewText ==
    /\ last = "tick"
    /\ ~setOnIdle
    /\ letters.index >= 1
    /\ \E t \in BagToSet(timers) : t.index > letters.index + 1

\* C4: a falsy (empty) text changes nothing but the attribute itself: units,
\* cursor, visible units, accessibility text, button label and visibility,
\* text-box visibility, completion marker and timers stay as they are.
EmptyTextIsNoOp ==
    [][attributeChangedCallback(<<>>) =>
          UNCHANGED <<display, dom, letters, timers, typeError>>]_vars

\* C4 witness: the attribute was set to the empty string in the middle of a
\* reveal (units shown, a timer live).
EmptyTextTakenMidReveal ==
    /\ textAttr = <<>>
    /\ timers # NoTimers
    /\ classVisible # {}

\* C5: a press dismisses (text box hidden, marker cleared, no timer started)
\* only when the completion marker is set; with the marker unset it leaves
\* the marker unset, hides the button and starts one reveal timer.
PressFollowsMarker ==
    [][PointerUp =>
          /\ continueHidden'
          /\ ~dataComplete'
          /\ IF dataComplete
             THEN textBoxHidden' /\ timers' = timers
             ELSE /\ textBoxHidden' = textBoxHidden
                  /\ timers' = timers (+) SetToBag({[index |-> 1, look |-> FALSE]})
                  /\ letters' = letters]_vars

\* C5 witness: a press at a page break has continued the reveal of a text
\* whose marker is unset.
ContinuedAtPageBreak ==
    /\ last = "continue"
    /\ ~dataComplete
    /\ unitHidden # {}
    /\ ~IsDone(letters)

\* C6 (as claimed): whenever the button is visible its label is "Done"
\* exactly when the completion marker is set.
LabelAgreesWithMarker ==
    ~continueHidden => (continueText = DoneLabel <=> dataComplete)

\* C7: when a tick has found the generator exhausted (the reveal has run to
\* completion and the marker is set), the number of units that carry
\* 'visible' is the number of characters of the trimmed input.
CompleteRevealsTrimmedLength ==
    last = "done" =>
        /\ dataComplete
        /\ Cardinality(classVisible) = Len(Trim(lastText))

\* C7 witness: a text of more than one page has been continued at its page
\* break and has run to completion.
PagedTextCompleted ==
    /\ last = "done"
    /\ Len(chars) > PageSize
    /\ unitHidden # {}

\* C8 (as claimed): after a text is taken the accessibility text is the
\* trimmed input.
AccessibleTextIsTrimmedInput ==
    lastText # <<>> => accessibleText = Trim(lastText)

\* C8 (amended): after a text is taken the accessibility text is the input
\* as it was given, whitespace around it included, and it stays that whatever
\* the reveal does until the next text is taken.
AccessibleTextIsInput == accessibleText = lastText

\* C8 witness: a text with whitespace around it is being revealed.
UntrimmedTextRevealing ==
    /\ lastText # Trim(lastText)
    /\ last = "tick"
    /\ classVisible # {}

\* C9: a live timer is scanning for whitespace exactly when its running
\* count has passed PageSize, the count never being below 1; and the timer a
\* continue starts has the count 1 and is not scanning.
ScanArmedAtPageSize ==
    /\ \A t \in BagToSet(timers) : t.index >= 1 /\ (t.look <=> t.index > PageSize)
    /\ last = "continue" => [index |-> 1, look |-> FALSE] \in BagToSet(timers)

\* C9 witness: a timer scanned from the count PageSize on and paused a text
\* of more than one page at a whitespace unit, and the continue that followed
\* has started the timer of the next page.
NextPageTimerStarted ==
    /\ last = "continue"
    /\ Len(chars) > PageSize
    /\ letters.index >= PageSize
    /\ IsWhitespace(chars[letters.index])
    /\ timers = SetToBag({[index |-> 1, look |-> FALSE]})

\* C10 (as claimed): "abc" taken on an idle display: after exactly 3 ticks
\* the marker is set, the label is "Done", 3 units are visible and the
\* accessibility text is "abc".
AbcCompleteAfterThreeTicks ==
    (lastText = Abc /\ setOnIdle /\ ticks = 3 /\ last # "dismiss") =>
        /\ dataComplete
        /\ continueText = DoneLabel
        /\ Cardinality(classVisible) = 3
        /\ accessibleText = Abc

\* C10 (amended): the same after exactly 4 ticks (three that reveal a unit
\* and the one that finds the generator exhausted), before any press.
AbcCompleteAfterFourTicks ==
    (lastText = Abc /\ setOnIdle /\ ticks = 4 /\ last # "dismiss") =>
        /\ dataComplete
        /\ continueText = DoneLabel
        /\ ~continueHidden
        /\ Cardinality(classVisible) = 3
        /\ accessibleText = Abc
        /\ timers = NoTimers

\* C10 witness: "abc" taken on an idle display, four ticks later.
AbcFourTicksLater ==
    /\ lastText = Abc
    /\ setOnIdle
    /\ ticks = 4
    /\ last = "done"

\* C11 (as claimed): the 150-character text taken on an idle display pauses
\* at its space (unit 121 of 1..150) and nowhere before; at the pause the
\* space is not revealed, the unit before it carries ellipsis-after and the
\* unit after it ellipsis-before, the button shows the in-progress label, the
\* marker is unset, and the 29 characters after the space are revealed only
\* after a continue.
ScenarioPausesWithSpaceUnrevealed ==
    (lastText = Scenario150 /\ setOnIdle /\ last = "pause") =>
        /\ letters.index = 121
        /\ classVisible = 1..120
        /\ ellipsisAfter = {120}
        /\ ellipsisBefore = {122}
        /\ ~continueHidden
        /\ continueText = ContinueLabel
        /\ ~dataComplete
        /\ timers = NoTimers

\* C12: while the text taken last is whitespace only, the text box has no
\* unit, no unit is or was revealed, no tick has revealed or paused (every
\* tick since has found the generator exhausted and set the marker and the
\* "Done" label, the first tick included), and nothing has thrown.
WhitespaceOnlyCompletesEmpty ==
    (lastText # <<>> /\ Trim(lastText) = <<>>) =>
        /\ chars = <<>>
        /\ classVisible = {}
        /\ letters.index = 0
        /\ ellipsisAfter = {} /\ ellipsisBefore = {}
        /\ ~typeError
        /\ last \in {"set", "continue", "done", "dismiss"}
        /\ last = "done" => dataComplete /\ continueText = DoneLabel /\ ~continueHidden
        /\ ticks >= 1 => last \in {"done", "dismiss"}

\* C12 witness: a whitespace-only text taken on an idle display, one tick
\* later: complete.
WhitespaceOnlyDoneAfterOneTick ==
    /\ lastText # <<>>
    /\ Trim(lastText) = <<>>
    /\ setOnIdle
    /\ ticks = 1
    /\ last = "done"
    /\ timers = NoTimers

\* C13 (as claimed): the whitespace unit of a page break of the current text
\* (the unit after one that carries ellipsis-after) is never marked visible.
BreakUnitNeverVisible == \A u \in ellipsisAfter : (u + 1) \notin classVisible

\* C14 (as claimed): the completion marker is set only when the generator
\* over the current text is exhausted.
MarkerOnlyWhenExhausted == dataComplete => IsDone(letters)

\* C15 (as claimed): a tick pauses only when the running count of its reveal
\* cycle is at least PageSize, and once a page break of the current text is
\* pending (no continue has hidden a page yet) no tick reveals a further unit.
PageBreakStopsTheReveal ==
    [][/\ \A t \in BagToSet(timers) :
             (IntervalCallback(t) /\ last' = "pause") => t.index >= PageSize
       /\ (ellipsisAfter # {} /\ unitHidden = {} /\ textBoxGen' = textBoxGen)
             => classVisible' = classVisible]_vars

\* C16 (as claimed): right after a continue at a page break of the current
\* text the button is hidden, every unit revealed so far is hidden, the
\* units revealed are 1..cursor with none left out or repeated, and the
\* cursor stands on the whitespace unit of the break, so that the new cycle
\* reveals the unit after it first.
ContinueResumesAfterBreakUnit ==
    (last = "continue" /\ ellipsisAfter # {}) =>
        /\ continueHidden
        /\ unitHidden = classVisible
        /\ classVisible = 1..letters.index
        /\ (letters.index - 1) \in ellipsisAfter

\* C17 (as claimed): while the text box is hidden (from a dismiss until the
\* next text is taken) the display is idle: button hidden, marker clear and
\* no unit in the visible state.
DismissedDisplayIsIdle ==
    (textBoxHidden /\ lastText # <<>>) =>
        /\ continueHidden
        /\ ~dataComplete
        /\ classVisible = {}

\* C18: a tick, a continue and a dismiss leave the accessibility text as it
\* is; a step that changes it is attributeChangedCallback with a value that
\* is not falsy.
OnlySetTextWritesAccessibleText ==
    [][/\ (Tick \/ PointerUp) => accessibleText' = accessibleText
       /\ accessibleText' # accessibleText =>
             /\ nSet' = nSet + 1
             /\ ~Falsy(textAttr')
             /\ accessibleText' = textAttr']_vars

\* C18 witness: a text has been revealed over a page break, continued,
\* completed and dismissed, and the accessibility text is still the input.
AccessibleTextKeptThroughDismiss ==
    /\ last = "dismiss"
    /\ unitHidden # {}
    /\ IsDone(letters)
    /\ accessibleText = lastText
    /\ Len(accessibleText) > PageSize

\* The completion state: generator exhausted, marker set, no timer live.
Completed == IsDone(letters) /\ dataComplete /\ timers = NoTimers

\* C19 (as claimed): once a text is taken, if the timer keeps ticking and the
\* user keeps pressing the button, the reveal reaches the completion state
\* unless the attribute is set again first.
RevealEventuallyCompletes ==
    \A n \in 1..MaxSetText :
        (last = "set" /\ nSet = n) ~> (Completed \/ nSet # n)

\* C20: no interval callback has thrown on a missing sibling: every page
\* break of the current text landed on a whitespace unit that is neither the
\* first nor the last unit, so the unit before it took ellipsis-after and
\* the unit after it ellipsis-before.
SiblingsExistAtPageBreak ==
    /\ ~typeError
    /\ \A u \in ellipsisAfter :
          /\ u >= 1
          /\ u + 2 <= Len(chars)
          /\ IsWhitespace(chars[u + 1])
          /\ (u + 2) \in ellipsisBefore
    /\ last = "pause" =>
          /\ 1 < letters.index
          /\ letters.index < Len(chars)
          /\ (letters.index - 1) \in ellipsisAfter

\* C20 witness: a page break on a text of three units, the whitespace unit
\* having exactly one unit on each side (a timer left from a longer text was
\* already scanning).
PageBreakOnThreeUnits ==
    /\ last = "pause"
    /\ Len(chars) = 3
    /\ letters.index = 2
    /\ ellipsisAfter = {1}
    /\ ellipsisBefore = {3}

====
